---- MODULE Spec2Model ----
(***************************************************************************)
(* A model of the mcp-postgresql Flask application: the generic REST       *)
(* handlers over reflected tables (app/routes/api.py, app/models/          *)
(* dynamic.py), the SSE completion endpoint (app/routes/sse.py,            *)
(* app/llm/llm_client.py) and the provider factory                         *)
(* (app/llm/model_factory.py).                                             *)
(*                                                                         *)
(* Each Flask handler runs to completion inside one request, so a handler  *)
(* is one action.  The last request and its response are kept in req and   *)
(* resp; sql holds the statements that request handed to execute_query.    *)
(*                                                                         *)
(* Library behaviour assumed: SQLAlchemy 1.x (a plain string is            *)
(* executable, DML on a Connection autocommits) over PostgreSQL (an        *)
(* unknown column, a duplicate key or an ill-typed literal raises).        *)
(***************************************************************************)
EXTENDS Integers, Sequences, FiniteSets, TLC

VARIABLES
    dbTables,   \* the tables that exist in the live database
    rows,       \* rows[t]: the rows of table t, in heap order
    serial,     \* next value of users.id's sequence
    metadata,   \* dynamic.metadata.tables: the reflected table names
    config,     \* app.config / os.environ, fixed at start-up
    req,        \* the last request
    resp,       \* the response to it
    sql,        \* the statements it issued through execute_query
    llm_client, \* stream_llm_response's llm_client, once line 64 has bound it
    sel,        \* LLMFactory.get_llm_client under test (SpecSelect)
    workers,    \* the request threads that share metadata (SpecRefresh)
    gen         \* a provider's _stream_response under test (SpecStream)

vars == <<dbTables, rows, serial, metadata, config, req, resp, sql, llm_client, sel, workers, gen>>

----------------------------------------------------------------------------
(* Bounds of the model. *)
MaxRows == 2
MaxVal == 2
MaxThreads == 2
MaxPayloads == 3

----------------------------------------------------------------------------
(* Values.  Every column of the modelled schema is of integer type; a    *)
(* column value is NULL or one of 1..MaxVal (users.id may also hold the    *)
(* sequence's MaxVal+1).  A path id (<string:row_id>) is the text of an    *)
(* integer, written here as that integer, or a text that is no integer     *)
(* literal, written BadId.                                                 *)
NULL == 0
BadId == -1
Values == 1..MaxVal
RowIds == Values \cup {BadId}

Range(f) == {f[x] : x \in DOMAIN f}
SeqToSet(s) == {s[i] : i \in 1..Len(s)}
EmptyMap == << >>
Min(a, b) == IF a < b THEN a ELSE b

----------------------------------------------------------------------------
(* The live database: its schema and what PostgreSQL does with a statement *)
(* that execute_query hands it.                                            *)
TableNames == {"users", "pairs", "logs", "ghost"}
LiveTables == {"users", "pairs", "logs"}

Columns(t) ==
    CASE t = "users" -> <<"id", "name">>
      [] t = "pairs" -> <<"a", "b">>
      [] t = "logs"  -> <<"msg">>
      [] OTHER       -> << >>

PrimaryKeys(t) ==
    CASE t = "users" -> <<"id">>
      [] t = "pairs" -> <<"a", "b">>
      [] OTHER       -> << >>

ColumnSet(t) == SeqToSet(Columns(t))

(* A result row is a tuple aligned with the table's column order. *)
Tuple(t, row) == [i \in 1..Len(Columns(t)) |-> row[Columns(t)[i]]]
Tuples(t, rs) == [i \in 1..Len(rs) |-> Tuple(t, rs[i])]

PkOf(t, row) == [i \in 1..Len(PrimaryKeys(t)) |-> row[PrimaryKeys(t)[i]]]

(* The primary-key constraint: no NULL in a key column, no two rows with   *)
(* the same key.                                                           *)
PkValid(t, rs) ==
    /\ \A i \in 1..Len(rs) : \A c \in SeqToSet(PrimaryKeys(t)) : rs[i][c] # NULL
    /\ PrimaryKeys(t) # << >> =>
          \A i, j \in 1..Len(rs) : PkOf(t, rs[i]) = PkOf(t, rs[j]) => i = j

DbError == [ok |-> FALSE, result |-> << >>, rows |-> rows, serial |-> serial]
DbOk(result, newRows, newSerial) ==
    [ok |-> TRUE, result |-> result, rows |-> newRows, serial |-> newSerial]

(* SELECT * FROM t LIMIT :limit OFFSET :offset *)
ExecSelect(q) ==
    LET t == q.table
        n == Len(rows[t])
        lo == q.params.offset + 1
        hi == Min(n, q.params.offset + q.params.limit)
    IN  IF t \notin dbTables \/ q.params.limit < 0 \/ q.params.offset < 0
        THEN DbError
        ELSE DbOk(Tuples(t, SubSeq(rows[t], lo, hi)), rows, serial)

(* An INSERT whose transaction is never committed: the statement returns   *)
(* its row and the table keeps what it held.                               *)
ExecInsert_uncommitted(q) ==
    LET t == q.table
        row == [c \in ColumnSet(t) |->
                   IF c \in q.names THEN q.params[c]
                   ELSE IF t = "users" /\ c = "id" THEN serial ELSE NULL]
    IN  IF t \notin dbTables \/ ~(q.names \subseteq ColumnSet(t))
        THEN DbError
        ELSE IF ~PkValid(t, Append(rows[t], row))
        THEN DbError
        ELSE DbOk(<<Tuple(t, row)>>, rows, serial)

(* INSERT INTO t (names) VALUES (:names) RETURNING * *)
ExecInsert(q) ==
    LET t == q.table
        usesDefault == t = "users" /\ "id" \notin q.names
        row == [c \in ColumnSet(t) |->
                   IF c \in q.names THEN q.params[c]
                   ELSE IF t = "users" /\ c = "id" THEN serial ELSE NULL]
        after == [rows EXCEPT ![t] = Append(@, row)]
        nextSerial == IF usesDefault THEN serial + 1 ELSE serial
    IN  IF t \notin dbTables \/ ~(q.names \subseteq ColumnSet(t))
        THEN DbError
        ELSE IF ~PkValid(t, after[t])
        THEN [DbError EXCEPT !.serial = nextSerial]
        ELSE DbOk(<<Tuple(t, row)>>, after, nextSerial)

(* The rows a WHERE key = :id matches; every column is an integer, so an   *)
(* id text that is no integer literal makes the comparison fail.           *)
Matches(t, key, id) == {i \in 1..Len(rows[t]) : rows[t][i][key] = id}

(* UPDATE t SET name = :name, ... WHERE key = :id RETURNING * *)
ExecUpdate(q) ==
    LET t == q.table
        hit == Matches(t, q.where, q.params["id"])
        new(i) == [c \in ColumnSet(t) |->
                      IF c \in q.names THEN q.params[c] ELSE rows[t][i][c]]
        after == [rows EXCEPT ![t] =
                     [i \in 1..Len(@) |-> IF i \in hit THEN new(i) ELSE @[i]]]
        idx == SelectSeq([i \in 1..Len(rows[t]) |-> i], LAMBDA i : i \in hit)
    IN  IF \/ t \notin dbTables
           \/ ~(q.names \subseteq ColumnSet(t))
           \/ q.params["id"] = BadId
        THEN DbError
        ELSE IF ~PkValid(t, after[t])
        THEN DbError
        ELSE DbOk([k \in 1..Len(idx) |-> Tuple(t, after[t][idx[k]])], after, serial)

(* A DELETE that reports the rows its WHERE matches and empties the table. *)
ExecDelete_everything(q) ==
    LET t == q.table
        gone == SelectSeq(rows[t], LAMBDA r : r[q.where] = q.params["id"])
    IN  IF t \notin dbTables \/ q.params["id"] = BadId
        THEN DbError
        ELSE DbOk(Tuples(t, gone), [rows EXCEPT ![t] = << >>], serial)

(* DELETE FROM t WHERE key = :id RETURNING * *)
ExecDelete(q) ==
    LET t == q.table
        gone == SelectSeq(rows[t], LAMBDA r : r[q.where] = q.params["id"])
        left == SelectSeq(rows[t], LAMBDA r : r[q.where] # q.params["id"])
    IN  IF t \notin dbTables \/ q.params["id"] = BadId
        THEN DbError
        ELSE DbOk(Tuples(t, gone), [rows EXCEPT ![t] = left], serial)

(* SELECT COUNT( * ) FROM t *)
ExecCount(q) ==
    IF q.table \notin dbTables THEN DbError
    ELSE DbOk(<< <<Len(rows[q.table])>> >>, rows, serial)

(* connection.execute(query, params): the statement runs and, being DML   *)
(* in a string, is committed at once.                                      *)
connection_execute(q) ==
    CASE q.op = "SELECT" -> ExecSelect(q)
      [] q.op = "COUNT"  -> ExecCount(q)
      [] q.op = "INSERT" -> ExecInsert(q)
      [] q.op = "UPDATE" -> ExecUpdate(q)
      [] q.op = "DELETE" -> ExecDelete(q)

(* return result.fetchall(): the result of a statement that returns no     *)
(* rows (DML without RETURNING) is closed, and fetchall raises             *)
(* ResourceClosedError; the statement has run by then.                     *)
execute_query(q) ==
    LET result == connection_execute(q)
    IN  IF result.ok /\ ~q.returning
        THEN [result EXCEPT !.ok = FALSE, !.result = << >>]
        ELSE result

----------------------------------------------------------------------------
(* app/models/dynamic.py: the reflected catalog.                           *)
None == "None"

(* metadata.reflect adds every live table it does not hold yet; it drops   *)
(* nothing.                                                                *)
reflect_db == metadata \cup dbTables

(* A lookup that asks the live database instead of the reflected catalog. *)
get_table_live(table_name) == IF table_name \in dbTables THEN table_name ELSE None

get_table(table_name) == IF table_name \in metadata THEN table_name ELSE None

(* get_table_info asks the inspector, that is the live database: a table   *)
(* that is reflected but was dropped since raises NoSuchTableError.        *)
TableInfo(t) ==
    [name |-> t,
     columns |-> [i \in 1..Len(Columns(t)) |->
                    [name |-> Columns(t)[i], type |-> "INTEGER",
                     nullable |-> Columns(t)[i] \notin SeqToSet(PrimaryKeys(t)),
                     primary_key |-> FALSE]],
     foreign_keys |-> << >>,
     primary_keys |-> PrimaryKeys(t)]

get_table_info(table_name) ==
    IF table_name \notin metadata THEN [raised |-> FALSE, found |-> FALSE, info |-> TableInfo(None)]
    ELSE IF table_name \notin dbTables THEN [raised |-> TRUE, found |-> FALSE, info |-> TableInfo(None)]
    ELSE [raised |-> FALSE, found |-> TRUE, info |-> TableInfo(table_name)]

----------------------------------------------------------------------------
(* Requests and responses. *)
NoUpstream == [reachable |-> FALSE, fragments |-> << >>, tail |-> "done"]

NoReq == [op |-> "none", table |-> None, id |-> NULL, data |-> EmptyMap,
          limit |-> 0, offset |-> 0, upstream |-> NoUpstream]

Json(status, outRows, message) ==
    [kind |-> "json", status |-> status, rows |-> outRows, message |-> message,
     tables |-> << >>, events |-> << >>, count |-> 0]

Sse(status, events) ==
    [kind |-> "sse", status |-> status, rows |-> << >>, message |-> "",
     tables |-> << >>, events |-> events, count |-> 0]

NoResp == Json(0, << >>, "")

(* for i, col in enumerate(column_names): if i < len(result): row[col] = result[i] *)
RowDict(column_names, result) ==
    LET n == Min(Len(column_names), Len(result))
    IN  [c \in {column_names[i] : i \in 1..n} |->
            result[CHOOSE i \in 1..n : column_names[i] = c]]

ColumnNames(table_info) == [i \in 1..Len(table_info.columns) |-> table_info.columns[i].name]

SelectStmt(t, limit, offset) ==
    [op |-> "SELECT", table |-> t, names |-> {}, where |-> "",
     params |-> [limit |-> limit, offset |-> offset], returning |-> TRUE]

(* columns.append(col); values.append(f":{col}"); params[col] = val *)
InsertStmt(t, data) ==
    [op |-> "INSERT", table |-> t, names |-> DOMAIN data, where |-> "",
     params |-> data, returning |-> TRUE]

(* set_clauses.append(f"{col} = :{col}"); params[col] = val; then          *)
(* params['id'] = row_id                                                   *)
UpdateStmt(t, primary_key, data, row_id) ==
    [op |-> "UPDATE", table |-> t, names |-> DOMAIN data, where |-> primary_key,
     params |-> [k \in DOMAIN data \cup {"id"} |->
                   IF k = "id" THEN row_id ELSE data[k]],
     returning |-> TRUE]

DeleteStmt(t, primary_key, row_id) ==
    [op |-> "DELETE", table |-> t, names |-> {}, where |-> primary_key,
     params |-> [k \in {"id"} |-> row_id], returning |-> TRUE]

(* A handler that takes every result for a match. *)
NoRow_unchecked(result) == FALSE

(* if not result: the statement returned no row *)
NoRow(result) == result = << >>

(* What a handler leaves behind: the response, the statements issued, and  *)
(* the database after them.                                                *)
NoClient == [cls |-> "None"]

Outcome(response, issued, db) ==
    [resp |-> response, sql |-> issued, rows |-> db.rows, serial |-> db.serial,
     client |-> NoClient]

Untouched == [rows |-> rows, serial |-> serial]

----------------------------------------------------------------------------
(* app/routes/api.py *)

(* GET /tables/<table_name>: the descriptor is the response's data. *)
get_table_details(table_name) ==
    LET table_info == get_table_info(table_name)
    IN  IF table_info.raised
        THEN Outcome(Json(500, << >>, "error"), << >>, Untouched)
        ELSE IF ~table_info.found
        THEN Outcome(Json(404, << >>, "Table not found"), << >>, Untouched)
        ELSE Outcome([Json(200, << >>, "") EXCEPT !.rows = <<table_info.info>>],
                     << >>, Untouched)

get_table_rows(table_name, limit, offset) ==
    LET query == SelectStmt(table_name, limit, offset)
        results == execute_query(query)
        table_info == get_table_info(table_name)
        columns == ColumnNames(table_info.info)
    IN  IF get_table(table_name) = None
        THEN Outcome(Json(404, << >>, "Table not found"), << >>, Untouched)
        ELSE IF ~results.ok \/ table_info.raised
        THEN Outcome(Json(500, << >>, "error"), <<query>>, results)
        ELSE Outcome(Json(200, [i \in 1..Len(results.result) |->
                                  RowDict(columns, results.result[i])], ""),
                     <<query>>, results)

create_row(table_name, data) ==
    LET query == InsertStmt(table_name, data)
        result == execute_query(query)
        table_info == get_table_info(table_name)
        column_names == ColumnNames(table_info.info)
    IN  IF get_table(table_name) = None
        THEN Outcome(Json(404, << >>, "Table not found"), << >>, Untouched)
        ELSE IF data = EmptyMap
        THEN Outcome(Json(400, << >>, "No data provided"), << >>, Untouched)
        ELSE IF ~result.ok \/ table_info.raised
        THEN Outcome(Json(500, << >>, "error"), <<query>>, result)
        ELSE Outcome(Json(201, <<RowDict(column_names, result.result[1])>>, ""),
                     <<query>>, result)

update_row(table_name, row_id, data) ==
    LET table_info == get_table_info(table_name)
        primary_keys == table_info.info.primary_keys
        query == UpdateStmt(table_name, primary_keys[1], data, row_id)
        result == execute_query(query)
        column_names == ColumnNames(table_info.info)
    IN  IF get_table(table_name) = None
        THEN Outcome(Json(404, << >>, "Table not found"), << >>, Untouched)
        ELSE IF data = EmptyMap
        THEN Outcome(Json(400, << >>, "No data provided"), << >>, Untouched)
        ELSE IF table_info.raised
        THEN Outcome(Json(500, << >>, "error"), << >>, Untouched)
        ELSE IF primary_keys = << >>
        THEN Outcome(Json(400, << >>, "no primary key"), << >>, Untouched)
        ELSE IF ~result.ok
        THEN Outcome(Json(500, << >>, "error"), <<query>>, result)
        ELSE IF NoRow(result.result)
        THEN Outcome(Json(404, << >>, "Row not found"), <<query>>, result)
        ELSE IF result.result = << >>
        THEN Outcome(Json(500, << >>, "IndexError"), <<query>>, result)
        ELSE Outcome(Json(200, <<RowDict(column_names, result.result[1])>>, ""),
                     <<query>>, result)

delete_row(table_name, row_id) ==
    LET table_info == get_table_info(table_name)
        primary_keys == table_info.info.primary_keys
        query == DeleteStmt(table_name, primary_keys[1], row_id)
        result == execute_query(query)
    IN  IF get_table(table_name) = None
        THEN Outcome(Json(404, << >>, "Table not found"), << >>, Untouched)
        ELSE IF table_info.raised
        THEN Outcome(Json(500, << >>, "error"), << >>, Untouched)
        ELSE IF primary_keys = << >>
        THEN Outcome(Json(400, << >>, "no primary key"), << >>, Untouched)
        ELSE IF ~result.ok
        THEN Outcome(Json(500, << >>, "error"), <<query>>, result)
        ELSE IF NoRow(result.result)
        THEN Outcome(Json(404, << >>, "Row not found"), <<query>>, result)
        ELSE Outcome(Json(200, << >>, "deleted successfully"), <<query>>, result)

----------------------------------------------------------------------------
(* Model names.  A Python string is the sequence of its characters, so     *)
(* that str.startswith is a prefix test; NoneName is Python's None and     *)
(* equals no string.                                                       *)
NoneName == <<"None">>
EmptyName == << >>
S_gpt_4 == <<"g", "p", "t", "-", "4">>
S_gpt_3_5_turbo == <<"g", "p", "t", "-", "3", ".", "5", "-", "t", "u", "r", "b", "o">>
S_text_davinci_003 == <<"t", "e", "x", "t", "-", "d", "a", "v", "i", "n", "c", "i", "-", "0", "0", "3">>
S_davinci == <<"d", "a", "v", "i", "n", "c", "i">>
S_claude == <<"c", "l", "a", "u", "d", "e">>
S_claude_2 == <<"c", "l", "a", "u", "d", "e", "-", "2">>
S_claude_instant == <<"c", "l", "a", "u", "d", "e", "-", "i", "n", "s", "t", "a", "n", "t">>
S_claude_3 == <<"c", "l", "a", "u", "d", "e", "-", "3">>
S_mistral == <<"m", "i", "s", "t", "r", "a", "l">>
S_mistral_7b == <<"m", "i", "s", "t", "r", "a", "l", ":", "7", "b">>
S_llama == <<"l", "l", "a", "m", "a">>
S_llama2 == <<"l", "l", "a", "m", "a", "2">>
S_llama2_13b == <<"l", "l", "a", "m", "a", "2", ":", "1", "3", "b">>
S_codellama == <<"c", "o", "d", "e", "l", "l", "a", "m", "a">>
S_codellama_7b == <<"c", "o", "d", "e", "l", "l", "a", "m", "a", ":", "7", "b">>
S_test_model == <<"t", "e", "s", "t", "-", "m", "o", "d", "e", "l">>
S_GPT_4 == <<"G", "P", "T", "-", "4">>
S_my_llama == <<"m", "y", "-", "l", "l", "a", "m", "a">>

P_gpt == <<"g", "p", "t">>
P_text_davinci == <<"t", "e", "x", "t", "-", "d", "a", "v", "i", "n", "c", "i">>
P_davinci == <<"d", "a", "v", "i", "n", "c", "i">>
P_claude == <<"c", "l", "a", "u", "d", "e">>
P_mistral == <<"m", "i", "s", "t", "r", "a", "l">>
P_llama == <<"l", "l", "a", "m", "a">>

ModelNames ==
    {NoneName, EmptyName, S_gpt_4, S_gpt_3_5_turbo, S_text_davinci_003, S_davinci, S_claude, S_claude_2, S_claude_instant, S_claude_3, S_mistral, S_mistral_7b, S_llama, S_llama2, S_llama2_13b, S_codellama, S_codellama_7b, S_test_model, S_GPT_4, S_my_llama}

startswith(s, prefix) ==
    Len(s) >= Len(prefix) /\ SubSeq(s, 1, Len(prefix)) = prefix

(* Python's truth value of an optional string: None and "" are false. *)
Truthy(s) == s # NoneName /\ s # EmptyName

(* a or b or c, on optional strings *)
Or3(a, b, c) == IF Truthy(a) THEN a ELSE IF Truthy(b) THEN b ELSE c

----------------------------------------------------------------------------
(* SQL text handed to POST /execute: the characters up to and including    *)
(* the statement's first word, and the statement the database makes of the *)
(* whole text.                                                             *)
UpperLetters == <<"A", "B", "C", "D", "E", "F", "G", "H", "I", "J", "K", "L", "M",
                  "N", "O", "P", "Q", "R", "S", "T", "U", "V", "W", "X", "Y", "Z">>
LowerLetters == <<"a", "b", "c", "d", "e", "f", "g", "h", "i", "j", "k", "l", "m",
                  "n", "o", "p", "q", "r", "s", "t", "u", "v", "w", "x", "y", "z">>
Whitespace == {" ", "\n", "\t"}

(* str.lower *)
lower(s) ==
    [i \in 1..Len(s) |->
        IF \E k \in 1..Len(UpperLetters) : UpperLetters[k] = s[i]
        THEN LowerLetters[CHOOSE k \in 1..Len(UpperLetters) : UpperLetters[k] = s[i]]
        ELSE s[i]]

(* str.strip *)
RECURSIVE strip(_)
strip(s) ==
    IF s = << >> THEN s
    ELSE IF Head(s) \in Whitespace THEN strip(Tail(s))
    ELSE IF s[Len(s)] \in Whitespace THEN strip(SubSeq(s, 1, Len(s) - 1))
    ELSE s

P_select == <<"s", "e", "l", "e", "c", "t">>
T_select == <<"s", "e", "l", "e", "c", "t", " ">>
T_SELECT == <<" ", "S", "E", "L", "E", "C", "T", " ">>
T_Select == <<"\n", "S", "e", "l", "e", "c", "t", " ">>
T_insert == <<"I", "N", "S", "E", "R", "T", " ">>
T_update == <<"u", "p", "d", "a", "t", "e", " ">>
T_delete == <<"D", "E", "L", "E", "T", "E", " ">>

(* POST /execute: the text runs as it is; rows for a text that starts with *)
(* select, the length of the fetched result otherwise.                     *)
execute_sql(data) ==
    LET query == data["query"]
        result == execute_query(query.stmt)
    IN  IF data = EmptyMap \/ "query" \notin DOMAIN data
        THEN Outcome(Json(400, << >>, "Query not provided"), << >>, Untouched)
        ELSE IF ~result.ok
        THEN Outcome(Json(500, << >>, "error"), <<query.stmt>>, result)
        ELSE IF startswith(lower(strip(query.text)), P_select)
        THEN Outcome([Json(200, result.result, "") EXCEPT !.count = Len(result.result)],
                     <<query.stmt>>, result)
        ELSE Outcome([Json(200, << >>, "Query executed successfully")
                         EXCEPT !.count = Len(result.result)],
                     <<query.stmt>>, result)

----------------------------------------------------------------------------
(* app/config.py: the settings the completion clients read.  os.environ    *)
(* and app.config carry the same values (Config copies the environment).   *)
OpenAIUrl == "https://api.openai.com/v1/chat/completions"
OllamaUrl == "http://localhost:11434/api/generate"

Configs ==
    [LLM_API_KEY : {"", "sk-llm"}, OPENAI_API_KEY : {"", "sk-openai"},
     LLM_API_URL : {""}, OPENAI_API_URL : {OpenAIUrl}, OLLAMA_API_URL : {OllamaUrl},
     LLM_MODEL : {S_gpt_3_5_turbo}, OPENAI_MODEL : {S_gpt_3_5_turbo},
     OLLAMA_MODEL : {S_llama2},
     DEFAULT_LLM_MODEL : {S_gpt_3_5_turbo, S_llama2, S_claude_2, EmptyName}]

(* The settings as app/config.py leaves them when only the keys are set.  *)
AppConfigs == {c \in Configs : c.OPENAI_API_KEY = "" /\ c.DEFAULT_LLM_MODEL = S_gpt_3_5_turbo}

----------------------------------------------------------------------------
(* app/llm/model_factory.py *)
Raised(exc, warned) ==
    [raised |-> TRUE, exc |-> exc, warned |-> warned, obj |-> [cls |-> "None"]]
Built(obj, warned) ==
    [raised |-> FALSE, exc |-> "", warned |-> warned, obj |-> obj]

OpenAIClient(model) ==
    LET api_key == IF config.OPENAI_API_KEY # "" THEN config.OPENAI_API_KEY
                   ELSE config.LLM_API_KEY
        api_url == IF config.OPENAI_API_URL # "" THEN config.OPENAI_API_URL
                   ELSE OpenAIUrl
        name == Or3(model, config.OPENAI_MODEL, config.LLM_MODEL)
    IN  IF api_key = "" THEN Raised("ValueError", FALSE)
        ELSE Built([cls |-> "OpenAIClient", api_key |-> api_key,
                    api_url |-> api_url, model |-> name], FALSE)

OllamaClient(model) ==
    LET api_url == IF config.OLLAMA_API_URL # "" THEN config.OLLAMA_API_URL
                   ELSE OllamaUrl
        name == Or3(model, config.OLLAMA_MODEL, S_llama2)
    IN  Built([cls |-> "OllamaClient", api_url |-> api_url, model |-> name], FALSE)

Warn(r) == [r EXCEPT !.warned = TRUE]

(* A factory that knows the listed Anthropic names only. *)
IsAnthropicName_listed(name) == name \in {S_claude, S_claude_2, S_claude_instant}

(* model_name in ['claude', 'claude-2', 'claude-instant'] or               *)
(* model_name.startswith('claude')                                         *)
IsAnthropicName(name) ==
    \/ name \in {S_claude, S_claude_2, S_claude_instant}
    \/ startswith(name, P_claude)

get_llm_client(model_name) ==
    LET name == IF ~Truthy(model_name) THEN config.DEFAULT_LLM_MODEL ELSE model_name
    IN  IF \/ startswith(name, P_gpt)
           \/ startswith(name, P_text_davinci)
           \/ startswith(name, P_davinci)
        THEN OpenAIClient(name)
        ELSE IF IsAnthropicName(name)
        THEN Raised("NotImplementedError", FALSE)
        ELSE IF \/ name \in {S_mistral, S_llama, S_llama2, S_codellama}
                \/ startswith(name, P_mistral)
                \/ startswith(name, P_llama)
        THEN OllamaClient(name)
        ELSE Warn(OpenAIClient(name))

----------------------------------------------------------------------------
(* app/llm/llm_client.py *)
LLMClient(model) ==
    LET name == Or3(model, config.LLM_MODEL, config.LLM_MODEL)
        api_url == IF config.LLM_API_URL # "" THEN config.LLM_API_URL ELSE OpenAIUrl
    IN  IF config.LLM_API_KEY = "" THEN Raised("ValueError", FALSE)
        ELSE Built([cls |-> "LLMClient", api_key |-> config.LLM_API_KEY,
                    api_url |-> api_url, model |-> name], FALSE)

(* obj.attr: the value of an instance attribute, AttributeError when the   *)
(* object has none of that name.                                           *)
HasAttr(obj, attr) == attr \in DOMAIN obj

----------------------------------------------------------------------------
(* app/utils/db_utils.py: the context handed to the completion provider.   *)
SampleLimit == 5

CatalogOrder == SelectSeq(<<"logs", "pairs", "users">>, LAMBDA t : t \in metadata)

(* get_all_tables_info describes every reflected table; one that was       *)
(* dropped since raises.                                                   *)
get_db_schema_description ==
    IF \E t \in metadata : get_table_info(t).raised
    THEN [raised |-> TRUE, text |-> << >>]
    ELSE [raised |-> FALSE,
          text |-> [i \in 1..Len(CatalogOrder) |->
                      [part |-> "schema", info |-> TableInfo(CatalogOrder[i])]]]

(* f"SELECT COUNT( * ) FROM {table_name}": the name is not checked. *)
CountStmt(t) ==
    [op |-> "COUNT", table |-> t, names |-> {}, where |-> "", params |-> EmptyMap,
     returning |-> TRUE]

get_table_row_count(table_name) ==
    LET results == execute_query(CountStmt(table_name))
    IN  IF results.ok
        THEN [part |-> "count", table |-> table_name, n |-> results.result[1][1]]
        ELSE [part |-> "count_error", table |-> table_name, n |-> 0]

(* f"SELECT * FROM {table_name} LIMIT {limit}", issued only for a          *)
(* reflected table; the limit is written into the text.                    *)
get_table_sample_data(table_name, limit) ==
    LET table_info == get_table_info(table_name)
        query == SelectStmt(table_name, limit, 0)
        results == execute_query(query)
    IN  IF ~table_info.found
        THEN [sql |-> << >>,
              block |-> [part |-> "sample_not_found", table |-> table_name, rows |-> << >>]]
        ELSE IF ~results.ok
        THEN [sql |-> <<query>>,
              block |-> [part |-> "sample_error", table |-> table_name, rows |-> << >>]]
        ELSE [sql |-> <<query>>,
              block |-> [part |-> "sample", table |-> table_name, rows |-> results.result]]

RECURSIVE TableBlocks(_)
TableBlocks(table_names) ==
    IF table_names = << >> THEN [sql |-> << >>, text |-> << >>]
    ELSE LET t == Head(table_names)
             sample == get_table_sample_data(t, SampleLimit)
             rest == TableBlocks(Tail(table_names))
         IN  [sql |-> <<CountStmt(t)>> \o sample.sql \o rest.sql,
              text |-> <<get_table_row_count(t), sample.block>> \o rest.text]

generate_context_for_llm(query, table_names) ==
    LET schema == get_db_schema_description
        blocks == TableBlocks(table_names)
        tail == IF query # "" THEN <<[part |-> "query", text |-> query]>> ELSE << >>
    IN  IF schema.raised THEN [raised |-> TRUE, sql |-> << >>, text |-> << >>]
        ELSE [raised |-> FALSE, sql |-> blocks.sql,
              text |-> schema.text \o blocks.text \o tail]

----------------------------------------------------------------------------
(* The completion API as the request finds it: unreachable, or answering   *)
(* with a sequence of text fragments that ends normally ("done"), in a     *)
(* transport failure, or in a fault that is no transport failure.          *)
Upstreams ==
    {NoUpstream,
     [reachable |-> TRUE, fragments |-> << >>, tail |-> "done"],
     [reachable |-> TRUE, fragments |-> <<"Hel", "lo">>, tail |-> "done"],
     [reachable |-> TRUE, fragments |-> <<"Hel">>, tail |-> "fault"]}

TransportErrorText == "Error generating streaming response"

(* _stream_response, consumed to its end: the fragments, then the error    *)
(* text as one more fragment when requests raised; any other fault leaves  *)
(* the generator.                                                          *)
StreamResponse(up) ==
    IF ~up.reachable
    THEN [raised |-> FALSE, chunks |-> <<TransportErrorText>>]
    ELSE IF up.tail = "transport_error"
    THEN [raised |-> FALSE, chunks |-> up.fragments \o <<TransportErrorText>>]
    ELSE [raised |-> up.tail = "fault", chunks |-> up.fragments]

----------------------------------------------------------------------------
(* _stream_response of the three clients, at the level of the payloads the *)
(* upstream sends.  A payload is an SSE event's data (OpenAIClient,        *)
(* LLMClient) or a line of the body (OllamaClient):                        *)
(*   "text"     a JSON object that carries the incremental field           *)
(*              (choices[0].delta.content / response), text may be empty;  *)
(*   "notext"   a JSON object without it;                                  *)
(*   "garbage"  no JSON;  "blank"  empty;  "sentinel"  the text [DONE].    *)
(* done is the object's completion flag.  The upstream refuses the         *)
(* connection, or sends payloads and, when cut is set, fails in transport  *)
(* (a requests.exceptions.RequestException) after cut of them.  Every      *)
(* JSON object the upstream sends has the shape its API documents.         *)
NoCut == -1
Texts == {"Hel", "lo", ""}
Payloads ==
    [kind : {"text"}, text : Texts, done : BOOLEAN]
    \cup [kind : {"notext"}, text : {""}, done : BOOLEAN]
    \cup [kind : {"garbage", "blank", "sentinel"}, text : {""}, done : {FALSE}]

RECURSIVE SeqsUpTo(_, _)
SeqsUpTo(S, n) ==
    IF n = 0 THEN {<< >>}
    ELSE LET shorter == SeqsUpTo(S, n - 1)
         IN  shorter \cup {Append(q, x) : q \in shorter, x \in S}

PayloadUpstreams ==
    {[connect |-> "refused", payloads |-> << >>, cut |-> NoCut]}
    \cup {[connect |-> "ok", payloads |-> ps, cut |-> c] :
             ps \in SeqsUpTo(Payloads, MaxPayloads), c \in {NoCut} \cup (0..MaxPayloads)}

Delivered(up) ==
    IF up.cut = NoCut \/ up.cut > Len(up.payloads) THEN up.payloads
    ELSE SubSeq(up.payloads, 1, up.cut)

(* The upstream fails while the generator is still reading. *)
Cut(up) == up.cut # NoCut /\ up.cut <= Len(up.payloads)

(* A generator that lets the RequestException through. *)
CatchRequestException_missing(chunks) == [raised |-> TRUE, chunks |-> chunks]

(* except requests.exceptions.RequestException as e: yield the error text *)
CatchRequestException(chunks) ==
    [raised |-> FALSE, chunks |-> chunks \o <<TransportErrorText>>]

(* A reader that takes [DONE] for one more undecodable event. *)
IsSentinel_ignored(event) == FALSE

(* if event.data == "[DONE]": break *)
IsSentinel(event) == event.kind = "sentinel"

(* for event in client.events(): stop at the sentinel, yield a non-empty   *)
(* content, pass over an event that json.loads or the key lookup rejects.  *)
RECURSIVE OpenAIEvents(_)
OpenAIEvents(events) ==
    IF events = << >> THEN [chunks |-> << >>, stopped |-> FALSE]
    ELSE LET event == Head(events)
             rest == OpenAIEvents(Tail(events))
         IN  IF IsSentinel(event) THEN [chunks |-> << >>, stopped |-> TRUE]
             ELSE IF event.kind = "text" /\ event.text # ""
             THEN [rest EXCEPT !.chunks = <<event.text>> \o @]
             ELSE rest

(* for line in response.iter_lines(): skip an empty line, yield response   *)
(* when the object has one, stop after an object whose done is set, pass   *)
(* over a line json.loads rejects.                                         *)
RECURSIVE OllamaLines(_)
OllamaLines(lines) ==
    IF lines = << >> THEN [chunks |-> << >>, stopped |-> FALSE]
    ELSE LET line == Head(lines)
             rest == OllamaLines(Tail(lines))
             data == IF line.done THEN [chunks |-> << >>, stopped |-> TRUE] ELSE rest
         IN  IF line.kind = "text" THEN [data EXCEPT !.chunks = <<line.text>> \o @]
             ELSE IF line.kind = "notext" THEN data
             ELSE rest

(* try: requests.post; raise_for_status; the loop; except RequestException *)
OpenAIClient_stream_response(up) ==
    LET read == OpenAIEvents(Delivered(up))
    IN  IF up.connect # "ok" THEN CatchRequestException(<< >>)
        ELSE IF Cut(up) /\ ~read.stopped THEN CatchRequestException(read.chunks)
        ELSE [raised |-> FALSE, chunks |-> read.chunks]

OllamaClient_stream_response(up) ==
    LET read == OllamaLines(Delivered(up))
    IN  IF up.connect # "ok" THEN CatchRequestException(<< >>)
        ELSE IF Cut(up) /\ ~read.stopped THEN CatchRequestException(read.chunks)
        ELSE [raised |-> FALSE, chunks |-> read.chunks]

LLMClient_stream_response(up) ==
    LET read == OpenAIEvents(Delivered(up))
    IN  IF up.connect # "ok" THEN CatchRequestException(<< >>)
        ELSE IF Cut(up) /\ ~read.stopped THEN CatchRequestException(read.chunks)
        ELSE [raised |-> FALSE, chunks |-> read.chunks]

ClientClasses == {"OpenAIClient", "OllamaClient", "LLMClient"}

stream_response(cls, up) ==
    CASE cls = "OpenAIClient" -> OpenAIClient_stream_response(up)
      [] cls = "OllamaClient" -> OllamaClient_stream_response(up)
      [] cls = "LLMClient"    -> LLMClient_stream_response(up)

NoGen == [pc |-> "off", cls |-> "None",
          up |-> [connect |-> "refused", payloads |-> << >>, cut |-> NoCut],
          out |-> [raised |-> FALSE, chunks |-> << >>]]

----------------------------------------------------------------------------
(* app/routes/sse.py *)
format_sse_message(data, event) == [event |-> event, data |-> data]

Started(model) == format_sse_message([status |-> "started", model |-> model], "message")
Chunk(text) == format_sse_message([chunk |-> text], "message")
Completed == format_sse_message([status |-> "completed"], "message")
Error(text) == format_sse_message([error |-> text], "message")
Close == format_sse_message([status |-> "closed"], "close")

(* generate(), read to its end by the WSGI server. *)
generate(client, up) ==
    LET stream == StreamResponse(up)
    IN  <<Started(client.model_name)>>
        \o [i \in 1..Len(stream.chunks) |-> Chunk(stream.chunks[i])]
        \o (IF stream.raised THEN <<Error("fault")>> ELSE <<Completed>>)
        \o <<Close>>

Get(data, key, default) == IF key \in DOMAIN data THEN data[key] ELSE default

(* A check that lets a body without a prompt through. *)
PromptMissing_emptyOnly(data) == data = EmptyMap

(* if not data or 'prompt' not in data *)
PromptMissing(data) == data = EmptyMap \/ "prompt" \notin DOMAIN data

stream_llm_response(data, up) ==
    LET prompt == data["prompt"]
        tables == Get(data, "tables", << >>)
        model_name == Get(data, "model", NoneName)
        context == generate_context_for_llm(prompt, tables)
        client == LLMClient(model_name)
    IN  IF PromptMissing(data)
        THEN Outcome(Sse(400, <<Error("Prompt is required")>>), << >>, Untouched)
        ELSE IF "prompt" \notin DOMAIN data
        THEN Outcome(Sse(200, <<Error("KeyError")>>), << >>, Untouched)
        ELSE IF context.raised
        THEN Outcome(Sse(200, <<Error("NoSuchTableError")>>), context.sql, Untouched)
        ELSE IF client.raised
        THEN Outcome(Sse(200, <<Error("LLM API key is required")>>), context.sql, Untouched)
        ELSE IF ~HasAttr(client.obj, "model_name")
        THEN [Outcome(Sse(200, <<Error("'LLMClient' object has no attribute 'model_name'")>>),
                      context.sql, Untouched) EXCEPT !.client = client.obj]
        ELSE [Outcome(Sse(200, generate(client.obj, up)), context.sql, Untouched)
                 EXCEPT !.client = client.obj]

----------------------------------------------------------------------------
(* The requests the model sends. *)
FieldNames(t) == ColumnSet(t) \cup {"bogus"}
FieldMaps(t) ==
    {m \in UNION {[S -> Values] : S \in SUBSET FieldNames(t)} :
        "bogus" \in DOMAIN m => m["bogus"] = 1}
Limits == {1, 2}
Offsets == {0, 1}
Prompts == {"How many users?"}
RequestModels == {S_gpt_4, S_llama2, S_claude_2}
TableLists == {<<"users">>, <<"logs">>, <<"ghost">>}
SseBodies ==
    {EmptyMap}
    \cup {("model" :> m) : m \in RequestModels}
    \cup {("prompt" :> p) : p \in Prompts}
    \cup {("prompt" :> p) @@ ("model" :> m) : p \in Prompts, m \in RequestModels}
    \cup {("prompt" :> p) @@ ("tables" :> ts) : p \in Prompts, ts \in TableLists}

(* The bodies sent to POST /execute. *)
Raw(text, stmt, returning) ==
    [text |-> text, stmt |-> [stmt EXCEPT !.returning = returning]]
RawQueries ==
    {Raw(T_select, SelectStmt("users", 2, 0), TRUE),
     Raw(T_SELECT, SelectStmt("users", 2, 0), TRUE),
     Raw(T_Select, SelectStmt("pairs", 2, 0), TRUE),
     Raw(T_select, SelectStmt("ghost", 2, 0), TRUE),
     Raw(T_insert, InsertStmt("users", ("name" :> 1)), TRUE),
     Raw(T_insert, InsertStmt("users", ("name" :> 1)), FALSE),
     Raw(T_update, UpdateStmt("users", "id", ("name" :> 2), 1), FALSE),
     Raw(T_delete, DeleteStmt("users", "id", 1), TRUE),
     Raw(T_delete, DeleteStmt("users", "id", 1), FALSE)}
ExecuteBodies ==
    {EmptyMap, ("params" :> EmptyMap)} \cup {("query" :> q) : q \in RawQueries}

Droppable == {"logs"}

NoSel == [pc |-> "off", model_name |-> NoneName, result |-> Raised("", FALSE)]

(* A request thread: where it stands, and the locals of MetaData.reflect   *)
(* (available, load, the Table under construction).  before is the catalog *)
(* as the refresh found it, seen the catalog a reader was handed.          *)
Threads == 1..MaxThreads
IdleWorker ==
    [pc |-> "idle", op |-> "none", available |-> {}, before |-> {}, load |-> << >>,
     done |-> 0, cur |-> None, seen |-> {}, status |-> 0]
NoWorkers == [w \in Threads |-> IdleWorker]

----------------------------------------------------------------------------
(* The application. *)
Init ==
    /\ dbTables = {"users", "pairs"}
    /\ rows = [t \in TableNames |-> << >>]
    /\ serial = 1
    /\ metadata = {"users", "pairs"}
    /\ config \in AppConfigs
    /\ req = NoReq
    /\ resp = NoResp
    /\ sql = << >>
    /\ llm_client = NoClient
    /\ sel = NoSel
    /\ workers = NoWorkers
    /\ gen = NoGen

Idle == req.op = "none"

TotalRows == Len(rows["users"]) + Len(rows["pairs"]) + Len(rows["logs"])

Finish(request, out) ==
    /\ Idle
    /\ req' = request
    /\ resp' = out.resp
    /\ sql' = out.sql
    /\ llm_client' = out.client
    /\ rows' = out.rows
    /\ serial' = out.serial
    /\ UNCHANGED <<dbTables, config, sel, workers, gen>>

GET_tables ==
    /\ Idle
    /\ metadata' = reflect_db
    /\ req' = [NoReq EXCEPT !.op = "get_tables"]
    /\ resp' = IF \E t \in reflect_db : t \notin dbTables
               THEN Json(500, << >>, "error")
               ELSE [Json(200, << >>, "") EXCEPT !.tables =
                        SelectSeq(<<"logs", "pairs", "users">>, LAMBDA t : t \in reflect_db)]
    /\ sql' = << >>
    /\ UNCHANGED <<dbTables, rows, serial, config, llm_client, sel, workers, gen>>

GET_table(t) ==
    /\ Finish([NoReq EXCEPT !.op = "get_table_details", !.table = t],
              get_table_details(t))
    /\ UNCHANGED metadata

GET_rows(t, limit, offset) ==
    /\ Finish([NoReq EXCEPT !.op = "get_table_rows", !.table = t,
                            !.limit = limit, !.offset = offset],
              get_table_rows(t, limit, offset))
    /\ UNCHANGED metadata

POST_rows(t, data) ==
    /\ TotalRows < MaxRows
    /\ serial <= MaxVal + 1
    /\ Finish([NoReq EXCEPT !.op = "create_row", !.table = t, !.data = data],
              create_row(t, data))
    /\ UNCHANGED metadata

PUT_row(t, id, data) ==
    /\ Finish([NoReq EXCEPT !.op = "update_row", !.table = t, !.id = id, !.data = data],
              update_row(t, id, data))
    /\ UNCHANGED metadata

DELETE_row(t, id) ==
    /\ Finish([NoReq EXCEPT !.op = "delete_row", !.table = t, !.id = id],
              delete_row(t, id))
    /\ UNCHANGED metadata

POST_execute(data) ==
    /\ ("query" \in DOMAIN data /\ data["query"].stmt.op = "INSERT") =>
          TotalRows < MaxRows /\ serial <= MaxVal + 1
    /\ Finish([NoReq EXCEPT !.op = "execute_sql", !.data = data], execute_sql(data))
    /\ UNCHANGED metadata

POST_sse_llm(data, up) ==
    /\ Finish([NoReq EXCEPT !.op = "stream_llm_response", !.data = data, !.upstream = up],
              stream_llm_response(data, up))
    /\ UNCHANGED metadata

(* The response has left; the worker takes the next request. *)
Respond ==
    /\ ~Idle
    /\ req' = NoReq
    /\ resp' = NoResp
    /\ sql' = << >>
    /\ llm_client' = NoClient
    /\ UNCHANGED <<dbTables, rows, serial, metadata, config, sel, workers, gen>>

(* Someone else changes the live schema. *)
CreateTable(t) ==
    /\ Idle
    /\ t \notin dbTables
    /\ dbTables' = dbTables \cup {t}
    /\ UNCHANGED <<rows, serial, metadata, config, req, resp, sql, llm_client, sel, workers, gen>>

DropTable(t) ==
    /\ Idle
    /\ t \in dbTables
    /\ dbTables' = dbTables \ {t}
    /\ rows' = [rows EXCEPT ![t] = << >>]
    /\ UNCHANGED <<serial, metadata, config, req, resp, sql, llm_client, sel, workers, gen>>

Next ==
    \/ GET_tables
    \/ \E t \in TableNames : GET_table(t)
    \/ \E t \in TableNames, limit \in Limits, offset \in Offsets : GET_rows(t, limit, offset)
    \/ \E t \in TableNames : \E data \in FieldMaps(t) : POST_rows(t, data)
    \/ \E t \in TableNames, id \in RowIds : \E data \in FieldMaps(t) : PUT_row(t, id, data)
    \/ \E t \in TableNames, id \in RowIds : DELETE_row(t, id)
    \/ \E data \in ExecuteBodies : POST_execute(data)
    \/ \E data \in SseBodies, up \in Upstreams : POST_sse_llm(data, up)
    \/ Respond
    \/ \E t \in Droppable : CreateTable(t)
    \/ \E t \in Droppable : DropTable(t)

Spec == Init /\ [][Next]_vars

----------------------------------------------------------------------------
(* LLMFactory.get_llm_client on its own: one call, for every model name    *)
(* and every configuration.                                                *)
InitSelect ==
    /\ dbTables = {"users", "pairs"}
    /\ rows = [t \in TableNames |-> << >>]
    /\ serial = 1
    /\ metadata = {"users", "pairs"}
    /\ config \in Configs
    /\ req = NoReq
    /\ resp = NoResp
    /\ sql = << >>
    /\ llm_client = NoClient
    /\ sel \in [pc : {"call"}, model_name : ModelNames, result : {Raised("", FALSE)}]
    /\ workers = NoWorkers
    /\ gen = NoGen

Select ==
    /\ sel.pc = "call"
    /\ sel' = [sel EXCEPT !.pc = "done", !.result = get_llm_client(sel.model_name)]
    /\ UNCHANGED <<dbTables, rows, serial, metadata, config, req, resp, sql, llm_client, workers, gen>>

NextSelect == Select

SpecSelect == InitSelect /\ [][NextSelect]_vars

----------------------------------------------------------------------------
(* GET /api/tables and catalog lookups on concurrent request threads.      *)
(* metadata is the one module-level MetaData object; metadata.reflect      *)
(* works on it in place: it reads the live table names, and for each name  *)
(* the catalog lacks it constructs Table(name, metadata, autoload_with),   *)
(* which first registers the Table in metadata.tables and then reflects    *)
(* its columns, un-registering it again when that raises.                  *)
InitRefresh ==
    /\ dbTables = {"users", "pairs"}
    /\ rows = [t \in TableNames |-> << >>]
    /\ serial = 1
    /\ metadata \in SUBSET {"users", "pairs"}
    /\ config \in AppConfigs
    /\ req = NoReq
    /\ resp = NoResp
    /\ sql = << >>
    /\ llm_client = NoClient
    /\ sel = NoSel
    /\ workers = NoWorkers
    /\ gen = NoGen

Core == <<rows, serial, config, req, resp, sql, llm_client, sel, gen>>

(* get_tables enters reflect_db: available = the live table names,         *)
(* load = those of them that metadata.tables does not hold.                *)
StartReflect(w) ==
    /\ workers[w].pc = "idle"
    /\ workers' = [workers EXCEPT ![w] =
          [IdleWorker EXCEPT !.pc = "loop", !.op = "get_tables",
                             !.available = dbTables, !.before = metadata,
                             !.load = SelectSeq(<<"logs", "pairs", "users">>,
                                         LAMBDA t : t \in dbTables \ metadata)]]
    /\ UNCHANGED <<dbTables, metadata, Core>>

(* Table.__new__: a name another thread registered meanwhile is returned   *)
(* as it is; otherwise the new, still column-less Table is registered.     *)
AddTable(w) ==
    /\ workers[w].pc = "loop"
    /\ workers[w].done < Len(workers[w].load)
    /\ LET name == workers[w].load[workers[w].done + 1]
       IN  IF name \in metadata
           THEN /\ workers' = [workers EXCEPT ![w].done = @ + 1]
                /\ UNCHANGED metadata
           ELSE /\ metadata' = metadata \cup {name}
                /\ workers' = [workers EXCEPT ![w].pc = "init", ![w].cur = name]
    /\ UNCHANGED <<dbTables, Core>>

(* Table._init reflects the columns; a table dropped since the names were  *)
(* read raises NoSuchTableError, which un-registers the Table and leaves   *)
(* reflect_db.                                                             *)
LoadTable(w) ==
    /\ workers[w].pc = "init"
    /\ IF workers[w].cur \in dbTables
       THEN /\ workers' = [workers EXCEPT ![w].pc = "loop", ![w].done = @ + 1,
                                          ![w].cur = None]
            /\ UNCHANGED metadata
       ELSE /\ metadata' = metadata \ {workers[w].cur}
            /\ workers' = [workers EXCEPT ![w].pc = "failed", ![w].cur = None,
                                          ![w].status = 500]
    /\ UNCHANGED <<dbTables, Core>>

(* The metadata query for the columns fails (connection lost, permission   *)
(* denied): the Table is un-registered and the error leaves reflect_db.    *)
LoadFails(w) ==
    /\ workers[w].pc = "init"
    /\ metadata' = metadata \ {workers[w].cur}
    /\ workers' = [workers EXCEPT ![w].pc = "failed", ![w].cur = None,
                                  ![w].status = 500]
    /\ UNCHANGED <<dbTables, Core>>

(* reflect_db returns. *)
EndReflect(w) ==
    /\ workers[w].pc = "loop"
    /\ workers[w].done = Len(workers[w].load)
    /\ workers' = [workers EXCEPT ![w].pc = "reflected"]
    /\ UNCHANGED <<dbTables, metadata, Core>>

(* get_all_tables_info and the response of get_tables. *)
ListTables(w) ==
    /\ workers[w].pc = "reflected"
    /\ workers' = [workers EXCEPT ![w].pc = "done", ![w].seen = metadata,
          ![w].status = IF \E t \in metadata : get_table_info(t).raised
                        THEN 500 ELSE 200]
    /\ UNCHANGED <<dbTables, metadata, Core>>

(* Another handler looks a table up in the catalog. *)
Lookup(w, t) ==
    /\ workers[w].pc = "idle"
    /\ workers' = [workers EXCEPT ![w] =
          [IdleWorker EXCEPT !.pc = "done", !.op = "get_table", !.cur = t,
                             !.seen = metadata,
                             !.status = IF get_table(t) = None THEN 404 ELSE 200]]
    /\ UNCHANGED <<dbTables, metadata, Core>>

(* The response leaves; the thread takes the next request. *)
Return(w) ==
    /\ workers[w].pc \in {"done", "failed"}
    /\ workers' = [workers EXCEPT ![w] = IdleWorker]
    /\ UNCHANGED <<dbTables, metadata, Core>>

NextRefresh ==
    \/ \E w \in Threads : StartReflect(w)
    \/ \E w \in Threads : AddTable(w)
    \/ \E w \in Threads : LoadTable(w)
    \/ \E w \in Threads : LoadFails(w)
    \/ \E w \in Threads : EndReflect(w)
    \/ \E w \in Threads : ListTables(w)
    \/ \E w \in Threads, t \in TableNames : Lookup(w, t)
    \/ \E w \in Threads : Return(w)
    \/ \E t \in Droppable : CreateTable(t)
    \/ \E t \in Droppable : DropTable(t)

SpecRefresh == InitRefresh /\ [][NextRefresh]_vars

----------------------------------------------------------------------------
(* generate_completion(prompt, context, streaming=True) of one client,     *)
(* read to its end: for every client class and every upstream.             *)
InitStream ==
    /\ dbTables = {"users", "pairs"}
    /\ rows = [t \in TableNames |-> << >>]
    /\ serial = 1
    /\ metadata = {"users", "pairs"}
    /\ config \in {c \in AppConfigs : c.LLM_API_KEY # ""}
    /\ req = NoReq
    /\ resp = NoResp
    /\ sql = << >>
    /\ llm_client = NoClient
    /\ sel = NoSel
    /\ workers = NoWorkers
    /\ gen \in [pc : {"call"}, cls : ClientClasses, up : PayloadUpstreams,
                out : {[raised |-> FALSE, chunks |-> << >>]}]

Stream ==
    /\ gen.pc = "call"
    /\ gen' = [gen EXCEPT !.pc = "done", !.out = stream_response(gen.cls, gen.up)]
    /\ UNCHANGED <<dbTables, rows, serial, metadata, config, req, resp, sql,
                   llm_client, sel, workers>>

NextStream == Stream

SpecStream == InitStream /\ [][NextStream]_vars

----------------------------------------------------------------------------
(* Properties of LLMFactory.get_llm_client (SpecSelect). *)

(* The naming conventions the selector is specified by. *)
ChatFamily(n) ==
    startswith(n, P_gpt) \/ startswith(n, P_text_davinci) \/ startswith(n, P_davinci)
UnsupportedFamily(n) == startswith(n, P_claude)
PromptFamily(n) ==
    startswith(n, P_mistral) \/ startswith(n, P_llama) \/ n = S_codellama

(* The name the decision is made on: the configured default for an absent  *)
(* or empty name.                                                          *)
Effective(n) == IF n = NoneName \/ n = EmptyName THEN config.DEFAULT_LLM_MODEL ELSE n

IsProviderA(r) == ~r.raised /\ r.obj.cls = "OpenAIClient"
IsProviderB(r) == ~r.raised /\ r.obj.cls = "OllamaClient"
IsUnsupported(r) == r.raised /\ r.exc = "NotImplementedError"
KeyConfigured == config.OPENAI_API_KEY # "" \/ config.LLM_API_KEY # ""

(* Provider A, or the ValueError its constructor raises without a key. *)
ProviderAOrNoKey(r) ==
    IF KeyConfigured THEN IsProviderA(r) ELSE r.raised /\ r.exc = "ValueError"

(* C6, as stated: select is total on the model name; an absent or empty    *)
(* name is replaced by the configured default; a chat-completion name      *)
(* yields Provider A, a prompt-completion name Provider B, a name of the   *)
(* unsupported family fails with InterfaceUnsupported, and every other     *)
(* name yields Provider A with a warning and never fails.                  *)
C6_SelectAsStated ==
    sel.pc = "done" =>
        LET m == Effective(sel.model_name)
            r == sel.result
        IN  /\ ChatFamily(m) => IsProviderA(r)
            /\ PromptFamily(m) => IsProviderB(r)
            /\ UnsupportedFamily(m) => IsUnsupported(r)
            /\ ~(ChatFamily(m) \/ PromptFamily(m) \/ UnsupportedFamily(m)) =>
                  IsProviderA(r) /\ r.warned

(* C6, amended: the same decision, where "yields Provider A" holds when an *)
(* API key is configured (OPENAI_API_KEY or LLM_API_KEY); without one the  *)
(* construction of Provider A raises ValueError.  A name of the            *)
(* unsupported family never yields a provider, an unrecognized name always *)
(* surfaces the warning and never fails with InterfaceUnsupported.         *)
C6_Select ==
    sel.pc = "done" =>
        LET m == Effective(sel.model_name)
            r == sel.result
        IN  /\ ChatFamily(m) => ProviderAOrNoKey(r) /\ ~r.warned
            /\ PromptFamily(m) => IsProviderB(r) /\ ~r.warned
            /\ UnsupportedFamily(m) => IsUnsupported(r)
            /\ ~(ChatFamily(m) \/ PromptFamily(m) \/ UnsupportedFamily(m)) =>
                  ProviderAOrNoKey(r) /\ r.warned /\ ~IsUnsupported(r)
            /\ ~r.raised => r.obj.model = m \/ m = EmptyName

(* An unrecognized name was routed to Provider A with the warning. *)
C6_Witness ==
    /\ sel.pc = "done"
    /\ sel.model_name = S_my_llama
    /\ IsProviderA(sel.result)
    /\ sel.result.warned

----------------------------------------------------------------------------
(* Properties of POST /sse/llm (Spec). *)
IsStatus(e, st) == e.event = "message" /\ "status" \in DOMAIN e.data /\ e.data.status = st
IsChunk(e) == e.event = "message" /\ "chunk" \in DOMAIN e.data
IsError(e) == e.event = "message" /\ "error" \in DOMAIN e.data
IsClose(e) == e.event = "close"
Count(ev, P(_)) == Cardinality({i \in 1..Len(ev) : P(ev[i])})
ChunkTexts(ev) ==
    LET cs == SelectSeq(ev, IsChunk) IN [i \in 1..Len(cs) |-> cs[i].data.chunk]

(* started, chunk*, completed | error, close *)
Lifecycle(ev) ==
    LET n == Len(ev)
    IN  /\ n >= 3
        /\ IsStatus(ev[1], "started")
        /\ \A i \in 2..(n - 2) : IsChunk(ev[i])
        /\ IsStatus(ev[n - 1], "completed") \/ IsError(ev[n - 1])
        /\ IsClose(ev[n])

PromptRequest == req.op = "stream_llm_response" /\ "prompt" \in DOMAIN req.data

(* A prompt request for which the context builds and the client is         *)
(* constructed: the relay is due.                                          *)
RelayDue == PromptRequest /\ config.LLM_API_KEY # "" /\ metadata \subseteq dbTables

(* C1: whatever the upstream sequence, the stream of a prompt request is   *)
(* one started event, chunk events, one of completed and error, and one    *)
(* close event, in that order, with nothing after close.                   *)
C1_Lifecycle == RelayDue => Lifecycle(resp.events)

(* C2: with an unreachable upstream the stream is started, exactly one     *)
(* error event carrying the transport-failure message, then close, with no *)
(* chunk and no completed event.                                           *)
C2_UnreachableUpstream ==
    (RelayDue /\ ~req.upstream.reachable) =>
        /\ Len(resp.events) = 3
        /\ IsStatus(resp.events[1], "started")
        /\ IsError(resp.events[2])
        /\ resp.events[2].data.error = TransportErrorText
        /\ IsClose(resp.events[3])

(* C3: whatever fails in the completion provider, a prompt request is      *)
(* answered by an event stream that ends with exactly one close event.     *)
C3_EndsWithClose ==
    PromptRequest =>
        /\ resp.kind = "sse"
        /\ Count(resp.events, IsClose) = 1
        /\ IsClose(resp.events[Len(resp.events)])

(* C4: the chunk events carry the upstream's fragments, one event per      *)
(* fragment, unchanged and in arrival order.                               *)
C4_ChunksAreFragments ==
    (RelayDue /\ req.upstream.reachable /\ req.upstream.tail = "done") =>
        ChunkTexts(resp.events) = req.upstream.fragments

(* The kind of provider a client class is: chat-completion (A) or          *)
(* prompt-completion (B).                                                  *)
ProviderOf(cls) ==
    CASE cls \in {"OpenAIClient", "LLMClient"} -> "A"
      [] cls = "OllamaClient" -> "B"
      [] OTHER -> "none"

(* C7: the provider a prompt request is served by is the one               *)
(* get_llm_client returns for the request's model; a model the selector    *)
(* rejects is sent to no provider.                                         *)
C7_ProviderIsSelected ==
    (PromptRequest /\ metadata \subseteq dbTables) =>
        LET r == get_llm_client(Get(req.data, "model", NoneName))
        IN  IF r.raised THEN llm_client = NoClient
            ELSE ProviderOf(llm_client.cls) = ProviderOf(r.obj.cls)

----------------------------------------------------------------------------
(* Properties of the row handlers (Spec). *)
RowOps == {"get_table_rows", "create_row", "update_row", "delete_row"}

(* C8: a table name that is not in the catalog is answered 404 and no      *)
(* statement reaches the database, whatever the body, id, limit or offset. *)
C8_UnknownTable ==
    (req.op \in RowOps /\ req.table \notin metadata) =>
        resp.status = 404 /\ sql = << >>

(* A table that exists in the live database but is not reflected yet was   *)
(* asked for with a body.                                                  *)
C8_Witness ==
    /\ req.op = "create_row"
    /\ req.table \in dbTables \ metadata
    /\ req.data # EmptyMap
    /\ resp.status = 404

(* C9: create_row and update_row write a field name into the statement     *)
(* only if it is a column of the table, and issue no statement for a body  *)
(* that holds a name that is not.                                          *)
C9_NamesValidated ==
    req.op \in {"create_row", "update_row"} =>
        /\ \A i \in 1..Len(sql) : sql[i].names \subseteq ColumnSet(sql[i].table)
        /\ (\E k \in DOMAIN req.data : k \notin ColumnSet(req.table)) => sql = << >>

(* update_row or delete_row on a reflected table with a primary key (and a *)
(* non-empty body for update) is about to answer.                          *)
KeyedWrite ==
    /\ Idle
    /\ req'.op \in {"update_row", "delete_row"}
    /\ req'.table \in metadata
    /\ PrimaryKeys(req'.table) # << >>
    /\ req'.op = "update_row" => req'.data # EmptyMap

(* The rows whose first primary-key column equals the id, before the       *)
(* request.                                                                *)
Hit == {i \in 1..Len(rows[req'.table]) :
           rows[req'.table][i][PrimaryKeys(req'.table)[1]] = req'.id}

(* On success exactly the rows of Hit were written, and there was one. *)
OnlyHitWritten ==
    LET t == req'.table
    IN  /\ Hit # {}
        /\ \A u \in TableNames \ {t} : rows'[u] = rows[u]
        /\ req'.op = "update_row" =>
             /\ Len(rows'[t]) = Len(rows[t])
             /\ \A i \in 1..Len(rows[t]) :
                  IF i \in Hit
                  THEN \A c \in ColumnSet(t) :
                         rows'[t][i][c] =
                            IF c \in DOMAIN req'.data \ {"id"} THEN req'.data[c]
                            ELSE IF c \in DOMAIN req'.data THEN rows'[t][i][c]
                            ELSE rows[t][i][c]
                  ELSE rows'[t][i] = rows[t][i]
        /\ req'.op = "delete_row" =>
             rows'[t] = SelectSeq(rows[t],
                           LAMBDA r : r[PrimaryKeys(t)[1]] # req'.id)

(* C10, as stated: an id that matches no row is always answered 404, and a *)
(* success means that exactly the matching rows were written.              *)
C10_AsStated ==
    [][KeyedWrite =>
          /\ Hit = {} => resp'.status = 404
          /\ resp'.status = 200 => OnlyHitWritten]_vars

(* The database executes the statement: every field name is a column and   *)
(* the id is a literal of the key's type.                                  *)
Executes ==
    /\ req'.id # BadId
    /\ DOMAIN req'.data \subseteq ColumnSet(req'.table)

(* C10, amended: an id that matches no row is never answered with success: *)
(* the answer is 404 when the database executes the statement and 500 when *)
(* it rejects it (a field name that is no column, an id that is no literal *)
(* of the key's type), and no row changes; a success means that exactly    *)
(* the matching rows were written and that there was at least one.         *)
C10_MissingRow ==
    [][KeyedWrite =>
          /\ Hit = {} =>
                /\ resp'.status = (IF Executes THEN 404 ELSE 500)
                /\ rows' = rows
          /\ resp'.status = 200 => OnlyHitWritten]_vars

(* An update with column names only named an id that no row of a           *)
(* non-empty table has.                                                    *)
C10_Witness ==
    /\ req.op = "update_row"
    /\ req.table = "users"
    /\ req.data # EmptyMap
    /\ DOMAIN req.data \subseteq ColumnSet("users")
    /\ rows["users"] # << >>
    /\ sql # << >>
    /\ resp.status = 404

----------------------------------------------------------------------------
(* Properties of update_row and delete_row on the primary key (Spec). *)
KeyedOps == {"update_row", "delete_row"}

(* C11: update_row and delete_row on a catalog table without a primary-key *)
(* column answer 400 and issue no statement; on a table with primary-key   *)
(* columns every statement they issue matches on the first declared one.   *)
C11_PrimaryKeyPrecondition ==
    (req.op \in KeyedOps /\ req.table \in metadata) =>
        /\ PrimaryKeys(req.table) = << >> => resp.status = 400 /\ sql = << >>
        /\ \A i \in 1..Len(sql) :
              /\ sql[i].op \in {"UPDATE", "DELETE"}
              /\ sql[i].where = PrimaryKeys(req.table)[1]

----------------------------------------------------------------------------
(* Properties of create_row followed by get_table_rows (Spec). *)

(* The row at heap position i of t, as get_table_rows renders it. *)
Rendered(t, i) == RowDict(Columns(t), Tuple(t, rows[t][i]))

(* Paging t with page size limit, offsets 0, limit, 2*limit, ..., some     *)
(* page is answered 200 and holds row i.                                   *)
PageReaches(t, i, limit) ==
    \E k \in 0..MaxRows :
        LET out == get_table_rows(t, limit, k * limit)
        IN  /\ out.resp.status = 200
            /\ \E j \in 1..Len(out.resp.rows) : out.resp.rows[j] = Rendered(t, i)

(* Every row a table holds is reached by paging, whatever the page size. *)
Pageable ==
    \A t \in TableNames : \A i \in 1..Len(rows[t]) : \A limit \in Limits :
        PageReaches(t, i, limit)

(* A create_row answered 201 has appended the row it returns. *)
InsertKept ==
    (Idle /\ req'.op = "create_row" /\ resp'.status = 201) =>
        LET t == req'.table
        IN  /\ Len(rows'[t]) = Len(rows[t]) + 1
            /\ RowDict(Columns(t), Tuple(t, rows'[t][Len(rows'[t])])) = resp'.rows[1]
            /\ \A c \in DOMAIN req'.data : resp'.rows[1][c] = req'.data[c]

(* The request being answered runs a statement of kind op on t: through   *)
(* the row handler of that kind, or as text sent to POST /execute.         *)
Runs(op, handler, t) ==
    /\ Idle
    /\ \/ req'.op = handler /\ req'.table = t
       \/ /\ req'.op = "execute_sql"
          /\ "query" \in DOMAIN req'.data
          /\ req'.data["query"].stmt.op = op
          /\ req'.data["query"].stmt.table = t

(* A row leaves its table only through a DELETE on that table or when the  *)
(* table is dropped; an UPDATE on the table may rewrite it in place.       *)
NoLoss ==
    \A t \in TableNames :
        ~Runs("DELETE", "delete_row", t) /\ ~(t \in dbTables \ dbTables') =>
            /\ Len(rows'[t]) >= Len(rows[t])
            /\ \A i \in 1..Len(rows[t]) :
                  \/ rows'[t][i] = rows[t][i]
                  \/ Runs("UPDATE", "update_row", t)

(* C12: after create_row answers 201 the returned row is part of the       *)
(* table, it stays there through every later request that is no delete on  *)
(* that table (and while the table is not dropped), and paging             *)
(* get_table_rows with increasing offsets reaches every row the table      *)
(* holds within finitely many pages.                                       *)
C12_InsertDurable == []Pageable /\ [][InsertKept /\ NoLoss]_vars

(* A later request paged past the first row and was answered the second    *)
(* row of a table.                                                         *)
C12_Witness ==
    /\ req.op = "get_table_rows"
    /\ req.offset = 1
    /\ req.limit = 1
    /\ resp.status = 200
    /\ Len(rows[req.table]) = 2
    /\ resp.rows = <<Rendered(req.table, 2)>>

----------------------------------------------------------------------------
(* Properties of the shared catalog (SpecRefresh). *)
Refreshing(w) == workers[w].pc \in {"loop", "init"}

(* What a refresh in progress has put into the catalog so far. *)
HasWritten(w) ==
    \/ workers[w].pc = "init"
    \/ \E i \in 1..workers[w].done : workers[w].load[i] \notin workers[w].before

HasMore(w) ==
    \/ workers[w].pc = "init"
    \/ workers[w].done < Len(workers[w].load)

(* The catalog holds a part of what a refresh in progress is building. *)
HalfBuilt == \E w \in Threads : Refreshing(w) /\ HasWritten(w) /\ HasMore(w)

(* Two refreshes in progress have both written into the catalog. *)
Interleaved ==
    \E v, w \in Threads : v # w /\ Refreshing(v) /\ Refreshing(w)
                                /\ HasWritten(v) /\ HasWritten(w)

(* A thread is handed the catalog. *)
Reads == \E w \in Threads : workers[w].pc = "idle" /\ workers'[w].op = "get_table"

(* C13: whatever the interleaving of the request threads, no reader is     *)
(* handed a catalog that a refresh has rebuilt in part, and no two         *)
(* refreshes in progress have both written into the catalog.               *)
C13_AtomicCatalog == [](~Interleaved) /\ [][Reads => ~HalfBuilt]_vars

(* C14: when reflect_db returns, the catalog is the set of tables the live *)
(* database held when the refresh read it; when reflect_db raises, the     *)
(* catalog is what it was when the refresh began.  Stated for a refresh    *)
(* that no other refresh runs beside.                                      *)
C14_RefreshAllOrNothing ==
    \A w \in Threads :
        (\A v \in Threads \ {w} : workers[v].op # "get_tables") =>
            /\ workers[w].pc = "reflected" => metadata = workers[w].available
            /\ workers[w].pc = "failed" => metadata = workers[w].before

----------------------------------------------------------------------------
(* Properties of the catalog's descriptors (Spec). *)

(* dynamic.get_tables: the names the catalog lists. *)
listTables == metadata

(* C15: in every reachable state, whatever happened to the live schema     *)
(* since the last refresh, every table the catalog lists is described      *)
(* without NotFound and without an error, its primary-key names are among  *)
(* its column names, and GET /tables/<name> answers 200 for it.            *)
C15_ListedTablesDescribed ==
    /\ \A t \in listTables :
          LET d == get_table_info(t)
          IN  /\ ~d.raised
              /\ d.found
              /\ SeqToSet(d.info.primary_keys) \subseteq SeqToSet(ColumnNames(d.info))
    /\ (req.op = "get_table_details" /\ req.table \in listTables) => resp.status = 200

----------------------------------------------------------------------------
(* Properties of the providers' streaming mode (SpecStream). *)
ProviderA == {"OpenAIClient", "LLMClient"}
ProviderB == {"OllamaClient"}

(* The payload at which a provider is to stop: the first [DONE] event for  *)
(* Provider A, the first decodable payload with the completion flag for    *)
(* Provider B; 0 when the payloads hold none.                              *)
IsTerminal(cls, p) ==
    IF cls \in ProviderA THEN p.kind = "sentinel"
    ELSE p.kind \in {"text", "notext"} /\ p.done

TerminalAt(cls, ps) ==
    IF \E i \in 1..Len(ps) : IsTerminal(cls, ps[i])
    THEN CHOOSE i \in 1..Len(ps) :
            /\ IsTerminal(cls, ps[i])
            /\ \A j \in 1..(i - 1) : ~IsTerminal(cls, ps[j])
    ELSE 0

(* The transport fails before the provider has reached its terminal        *)
(* payload.                                                                *)
TransportFails(cls, up) ==
    \/ up.connect # "ok"
    \/ Cut(up) /\ TerminalAt(cls, Delivered(up)) = 0

(* The same upstream, ending in good order after what it delivered. *)
Healthy(up) == [connect |-> "ok", payloads |-> Delivered(up), cut |-> NoCut]

(* C16: a provider's fragment sequence is finite and no exception reaches  *)
(* the consumer; when the transport fails, before the first fragment or    *)
(* after k of them, the sequence is those k fragments followed by exactly  *)
(* one error-text fragment, which is its last; without a transport failure *)
(* it holds no error-text fragment.                                        *)
C16_TransportFailureFragment ==
    gen.pc = "done" =>
        LET out == gen.out
            n == Len(out.chunks)
        IN  /\ n <= MaxPayloads + 1
            /\ TransportFails(gen.cls, gen.up) =>
                  /\ ~out.raised
                  /\ n >= 1
                  /\ out.chunks[n] = TransportErrorText
                  /\ SubSeq(out.chunks, 1, n - 1) =
                        stream_response(gen.cls, Healthy(gen.up)).chunks
                  /\ \A i \in 1..(n - 1) : out.chunks[i] # TransportErrorText
            /\ ~TransportFails(gen.cls, gen.up) =>
                  \A i \in 1..n : out.chunks[i] # TransportErrorText

(* The transport failed after Provider B had yielded one fragment. *)
C16_Witness ==
    /\ gen.pc = "done"
    /\ gen.cls = "OllamaClient"
    /\ gen.up.cut = 1
    /\ Len(gen.up.payloads) = 2
    /\ gen.out.chunks = <<"Hel", TransportErrorText>>

(* The texts of the payloads that carry the incremental field, in order. *)
RECURSIVE TextsOf(_)
TextsOf(ps) ==
    IF ps = << >> THEN << >>
    ELSE IF Head(ps).kind = "text" THEN <<Head(ps).text>> \o TextsOf(Tail(ps))
    ELSE TextsOf(Tail(ps))

NonEmpty(texts) == SelectSeq(texts, LAMBDA x : x # "")

(* The payloads a provider is to draw its fragments from: those before the *)
(* terminal payload, for Provider B with the terminal payload itself.      *)
BeforeTerminal(cls, ps) ==
    LET at == TerminalAt(cls, ps)
    IN  IF at = 0 THEN ps
        ELSE IF cls \in ProviderA THEN SubSeq(ps, 1, at - 1)
        ELSE SubSeq(ps, 1, at)

GoodTransport == gen.pc = "done" /\ gen.up.connect = "ok" /\ ~Cut(gen.up)

(* C19, as stated: a provider yields nothing from the terminal payload on  *)
(* (Provider B still yields the flagged payload's text), and its fragments *)
(* are exactly the incremental texts of the payloads before, in order;     *)
(* undecodable payloads are passed over.                                   *)
C19_AsStated ==
    GoodTransport =>
        gen.out.chunks = TextsOf(BeforeTerminal(gen.cls, gen.up.payloads))

(* C19, amended: the same, where Provider A yields the non-empty           *)
(* incremental texts only (an event whose content is empty or absent       *)
(* yields no fragment), while Provider B yields every text, empty ones     *)
(* included.                                                               *)
C19_StopsAtTerminal ==
    GoodTransport =>
        LET texts == TextsOf(BeforeTerminal(gen.cls, gen.up.payloads))
        IN  /\ ~gen.out.raised
            /\ gen.out.chunks = (IF gen.cls \in ProviderA THEN NonEmpty(texts) ELSE texts)

(* Provider A read an undecodable event, a text, [DONE], and a text after  *)
(* it.                                                                     *)
C19_Witness ==
    /\ gen.pc = "done"
    /\ gen.cls = "OpenAIClient"
    /\ gen.up.connect = "ok"
    /\ gen.up.cut = NoCut
    /\ Len(gen.up.payloads) = 3
    /\ gen.up.payloads[1].kind = "text"
    /\ gen.up.payloads[2].kind = "sentinel"
    /\ gen.up.payloads[3].kind = "text"
    /\ gen.up.payloads[3].text = "lo"
    /\ gen.out.chunks = <<"Hel">>

----------------------------------------------------------------------------
(* Properties of POST /execute (Spec). *)

(* The trimmed text starts with "select", in any letter case. *)
SelectLike(text) ==
    LET t == strip(text)
    IN  /\ Len(t) >= 6
        /\ \A i \in 1..6 : t[i] = P_select[i] \/ t[i] = <<"S", "E", "L", "E", "C", "T">>[i]

(* The rows a statement affects, counted on the table before and after. *)
Affected(stmt) ==
    CASE stmt.op = "INSERT" -> Len(rows'[stmt.table]) - Len(rows[stmt.table])
      [] stmt.op = "DELETE" -> Len(rows[stmt.table]) - Len(rows'[stmt.table])
      [] stmt.op = "UPDATE" ->
            Cardinality({i \in 1..Len(rows[stmt.table]) :
                            rows[stmt.table][i][stmt.where] = stmt.params["id"]})
      [] OTHER -> 0

(* C17: POST /execute without a query field answers 400 and executes       *)
(* nothing; a text that starts with select answers the result rows and     *)
(* their count; any other text that the database executes answers success  *)
(* with the number of rows the statement affected.                         *)
C17_ExecuteRaw ==
    [][(Idle /\ req'.op = "execute_sql") =>
          IF "query" \notin DOMAIN req'.data
          THEN resp'.status = 400 /\ sql' = << >> /\ rows' = rows
          ELSE LET query == req'.data["query"]
                   ran == connection_execute(query.stmt)
               IN  ran.ok =>
                      /\ resp'.status = 200
                      /\ SelectLike(query.text) =>
                            resp'.rows = ran.result /\ resp'.count = Len(ran.result)
                      /\ ~SelectLike(query.text) =>
                            resp'.count = Affected(query.stmt)]_vars

----------------------------------------------------------------------------
(* Properties of POST /sse/llm without a prompt (Spec). *)

(* C18: a POST /sse/llm whose body is empty or has no prompt field is      *)
(* answered 400 with an event stream of one message whose data holds an    *)
(* error field; no statement is issued for a context, no completion client *)
(* is constructed, and no started event is sent.                           *)
C18_PromptRequired ==
    (req.op = "stream_llm_response" /\ "prompt" \notin DOMAIN req.data) =>
        /\ resp.kind = "sse"
        /\ resp.status = 400
        /\ Len(resp.events) = 1
        /\ IsError(resp.events[1])
        /\ \A i \in 1..Len(resp.events) : ~IsStatus(resp.events[i], "started")
        /\ sql = << >>
        /\ llm_client = NoClient

(* A body that names a model but no prompt was refused, with a key         *)
(* configured.                                                             *)
C18_Witness ==
    /\ req.op = "stream_llm_response"
    /\ req.data = ("model" :> S_llama2)
    /\ config.LLM_API_KEY # ""
    /\ resp.status = 400
    /\ IsError(resp.events[1])

----------------------------------------------------------------------------
(* Frame of the refused writes (Spec). *)
WriteOps == {"create_row", "update_row", "delete_row"}

(* C20: a create_row, update_row or delete_row that is answered 404 or 400 *)
(* (unknown table, empty body, no primary key, no row with the id) leaves  *)
(* the rows of every table and the catalog as they were.                   *)
C20_RefusedWriteFrame ==
    [][(Idle /\ req'.op \in WriteOps /\ resp'.status \in {400, 404}) =>
          /\ rows' = rows
          /\ serial' = serial
          /\ metadata' = metadata
          /\ dbTables' = dbTables]_vars

(* A delete_row ran its statement on a table that holds rows and was       *)
(* answered 404.                                                           *)
C20_Witness ==
    /\ req.op = "delete_row"
    /\ resp.status = 404
    /\ sql # << >>
    /\ rows[req.table] # << >>

----------------------------------------------------------------------------
(* Properties of update_row's parameter binding (Spec). *)

(* C21: update_row writes, for every key of the body, the body's value     *)
(* into that column of the rows whose first primary-key column equals the  *)
(* path id, and into no other row; a key named id is no exception: the     *)
(* value written to column id is the body's, the row matched is the path   *)
(* id's.                                                                   *)
C21_BindingsDistinct ==
    [][(Idle /\ req'.op = "update_row" /\ resp'.status = 200) =>
          LET t == req'.table
          IN  /\ Hit # {}
              /\ Len(rows'[t]) = Len(rows[t])
              /\ \A i \in 1..Len(rows[t]) :
                    IF i \in Hit
                    THEN \A c \in DOMAIN req'.data : rows'[t][i][c] = req'.data[c]
                    ELSE rows'[t][i] = rows[t][i]]_vars

====
